---- MODULE Spec2Model ----
(***************************************************************************)
(* Model of dataset-conversion/convert_bids_to_nnUNetv2_praxis_multi-      *)
(* channel.py: main() converts BIDS source trees into the nnUNetv2         *)
(* multi-channel layout.  One run is Setup (output directories, log file,  *)
(* path check, per-site test directories), one SplitSource per entry of    *)
(* --path-data, one ConvertSubject per entry of all_lesion_files and       *)
(* CreateYaml.  An uncaught Python exception ends the run (pc "crashed").  *)
(***************************************************************************)
EXTENDS Integers, Sequences, FiniteSets, TLC

\* ------------------------------------------------------------------ bounds
MaxSources == 2        \* longest --path-data list
NumSubjects == 3       \* subjects in the site_003 tree
MaxMissing == 1        \* subjects whose '_seg' companion is absent on disk
MaxRuns == 2           \* executions compared by the reproducibility check
NumVoxels == 3         \* voxels of every volume
MaxExisting == 2       \* datasets already present in the download folder

\* --------------------------------------------------------- source fixture
\* A path is a sequence of components; "/" first marks an absolute path.
RootA == <<"/", "data", "site_003">>
RootB == <<"data", "site_012">>
RootH == <<"/", "data", "site_014">>
RootD == <<"/", "data", "site-006">>
RootN == <<"/", "nope">>
Roots == {RootA, RootB, RootH, RootD, RootN}
ExistingRoots == {RootA, RootB, RootH, RootD}

\* Subjects are named by a number (the stem of the file name); the two
\* ordinary sites share stem 1 (both hold a "sub-01").
StemsOf(r) ==
    CASE r = RootA -> 1..NumSubjects
      [] r = RootB -> {1, 12}
      [] r = RootH -> {101, 102, 105}
      [] r = RootD -> {21, 22}
      [] OTHER -> {}

\* Orientation in which each site stores its volumes.
OrientOf(r) ==
    CASE r = RootA -> "RPI"
      [] r = RootB -> "AIL"
      [] r = RootH -> "LPI"
      [] r = RootD -> "LAS"
      [] OTHER -> "RPI"

\* A source file: <root>[/derivatives/labels]/sub/anat/<stem><suffix>.nii.gz
MkPath(r, d, s, x) == [root |-> r, deriv |-> d, stem |-> s, suffix |-> x]
ImagePath(r, s) == MkPath(r, FALSE, s, "")
LesionPath(r, s) == MkPath(r, TRUE, s, "_lesion")
SegPath(r, s) == MkPath(r, TRUE, s, "_seg")

\* site_014 holds T2w images for 101, 102, 105 and masks for 101 only.
HasMasks(r, s) == r # RootH \/ s = 101

\* A volume: what it holds, its orientation and its voxels, in hundredths
\* (a mask value 0.5 is 50, the label 2 is 200).
Content(k, o, v) == [kind |-> k, orient |-> o, vox |-> v]

\* Voxel data of the fixture: every subject has its own image and masks;
\* some lesion voxels lie outside the spinal cord mask.
ImageVox(stem) == [v \in 1..NumVoxels |-> ((stem * v) % 3) * 50]
SegVox(stem) == [v \in 1..NumVoxels |-> IF (stem + v) % 3 = 0 THEN 0 ELSE 100]
LesionVox(stem) ==
    [v \in 1..NumVoxels |->
        CASE (stem + 2 * v) % 4 = 0 -> 100
          [] (stem + 2 * v) % 4 = 1 -> 50
          [] (stem + 2 * v) % 4 = 2 -> 40
          [] OTHER -> 0]

\* The files on disk when the run starts; missing is the set of lesion
\* files whose '_seg' companion is absent.
InitialTree(missing) ==
    LET imgs == UNION {{ImagePath(r, s) : s \in StemsOf(r)} : r \in ExistingRoots}
        les  == UNION {{LesionPath(r, s) : s \in {t \in StemsOf(r) : HasMasks(r, t)}}
                       : r \in ExistingRoots}
        segs == {SegPath(p.root, p.stem) : p \in les \ missing}
    IN [p \in imgs \cup les \cup segs |->
          CASE p.suffix = "" -> Content("image", OrientOf(p.root), ImageVox(p.stem))
            [] p.suffix = "_lesion" -> Content("lesion", OrientOf(p.root), LesionVox(p.stem))
            [] OTHER -> Content("seg", OrientOf(p.root), SegVox(p.stem))]

\* ------------------------------------------------------------- path helpers
Basename(path) == path[Len(path)]
IsAbs(path) == Len(path) > 0 /\ path[1] = "/"
\* os.path.join(root, sub): an absolute second argument discards the first.
PathJoin(a, b) == IF IsAbs(b) THEN b ELSE a \o b
\* str(path) of a source file as a component sequence.
Components(p) ==
    p.root \o (IF p.deriv THEN <<"derivatives", "labels">> ELSE <<>>) \o <<"sub", "anat", "file">>

\* re.search(r'site_\d{3}', component): the match inside one component.
SiteIn(c) ==
    CASE c = "site_003" -> "site_003"
      [] c = "site_012" -> "site_012"
      [] c = "site_014" -> "site_014"
      [] OTHER -> "None"

RECURSIVE FirstSite(_, _)
FirstSite(path, i) ==
    IF i > Len(path) THEN "None"
    ELSE IF SiteIn(path[i]) # "None" THEN SiteIn(path[i])
    ELSE FirstSite(path, i + 1)

\* find_site_in_path: the leftmost match in the whole path, or None.
find_site_in_path(path) == FirstSite(path, 1)

\* str.replace('_lesion', x) on a source path.
ReplaceLesion(p, x) == IF p.suffix = "_lesion" THEN [p EXCEPT !.suffix = x] ELSE p
\* .replace('/derivatives/labels', '').replace('_lesion', '')
ImageFileOf(p) == ReplaceLesion([p EXCEPT !.deriv = FALSE], "")

\* ------------------------------------------------------- train_test_split
\* numpy RandomState(rs).permutation(n), 0-based as numpy returns it.
Permutation(rs, n) ==
    CASE rs = 42 -> (CASE n = 1 -> <<0>> [] n = 2 -> <<1, 0>> [] n = 3 -> <<0, 1, 2>>
                       [] n = 4 -> <<1, 3, 0, 2>> [] n = 5 -> <<1, 4, 2, 0, 3>>
                       [] OTHER -> <<0, 1, 5, 2, 4, 3>>)
      [] rs = 43 -> (CASE n = 1 -> <<0>> [] n = 2 -> <<1, 0>> [] n = 3 -> <<1, 2, 0>>
                       [] n = 4 -> <<2, 1, 3, 0>> [] n = 5 -> <<3, 2, 1, 0, 4>>
                       [] OTHER -> <<5, 2, 1, 3, 0, 4>>)
      [] rs = 50 -> (CASE n = 1 -> <<0>> [] n = 2 -> <<1, 0>> [] n = 3 -> <<1, 2, 0>>
                       [] n = 4 -> <<2, 1, 3, 0>> [] n = 5 -> <<3, 2, 1, 4, 0>>
                       [] OTHER -> <<4, 2, 1, 3, 5, 0>>)
      [] OTHER -> (CASE n = 1 -> <<0>> [] n = 2 -> <<1, 0>> [] n = 3 -> <<0, 1, 2>>
                       [] n = 4 -> <<0, 3, 1, 2>> [] n = 5 -> <<2, 3, 0, 4, 1>>
                       [] OTHER -> <<2, 4, 3, 5, 0, 1>>)

Ceil(a, b) == (a + b - 1) \div b
\* n_test = ceil(test_size * n_samples), test_size given in percent.
NTest(n, pct) == Ceil(pct * n, 100)
\* ValueError of train_test_split: test_size outside (0, 1) or empty train set.
SplitRaises(n, pct) == pct <= 0 \/ pct >= 100 \/ n - NTest(n, pct) <= 0

ind_test(perm, n_test) == SubSeq(perm, 1, n_test)
ind_train_overlap(perm, n_test, n_train) == SubSeq(perm, n_test, n_test + n_train)
ind_train(perm, n_test, n_train) == SubSeq(perm, n_test + 1, n_test + n_train)
SafeIndexing(list, ind) == [i \in 1..Len(ind) |-> list[ind[i] + 1]]

Range(s) == {s[i] : i \in 1..Len(s)}
\* The orders in which the file system may enumerate the files S of one
\* tree: by name, ascending or descending.
RECURSIVE ByStem(_)
ByStem(S) ==
    IF S = {} THEN <<>>
    ELSE LET p == CHOOSE q \in S : \A r \in S : q.stem <= r.stem
         IN <<p>> \o ByStem(S \ {p})
Reverse(s) == [i \in 1..Len(s) |-> s[Len(s) + 1 - i]]
EnumerationOrders(S) == {ByStem(S), Reverse(ByStem(S))}

\* sub-que002, sub-que004, sub-que005, sub-que008, sub-que012 (lines 276-280)
AllowList == <<102, 104, 105, 108, 112>>

Seeds == {42, 50}
\* --split as <<train, test>> in percent; argparse accepts any floats
Splits == {<<80, 20>>, <<80, 50>>, <<0, 100>>}

\* ------------------------------------------------- download_data.py fixture
\* SITES_CONFIG["spineimage"]["datasets"], in insertion order (the
\* "neuropoly" entry is commented out in the source).
Datasets == <<"site_03", "site_006", "site_007", "site_009", "site_012", "site_013", "site_014">>

Home == <<"/", "home", "user">>      \* where the script is started
Folder == <<"/", "data">>            \* abspath(expanduser(args.ofolder))
Store == <<"/", "mnt", "store">>     \* where linked datasets really live

EntryKinds == {"dir", "link", "file"}

\* The disk before the script starts: 'existing' gives the kind of each
\* entry already present in the download folder.
InitialDisk(existing) ==
    LET names == DOMAIN existing
        linked == {n \in names : existing[n] = "link"}
        present == {Home, Store}
                   \cup (IF names = {} THEN {} ELSE {Folder})
                   \cup {Folder \o <<n>> : n \in names}
                   \cup {Store \o <<n>> : n \in linked}
    IN [p \in present |->
          IF Len(p) = 3 /\ SubSeq(p, 1, 2) = Folder
          THEN [kind |-> existing[p[3]],
                to |-> IF existing[p[3]] = "link" THEN Store \o <<p[3]>> ELSE <<>>]
          ELSE [kind |-> "dir", to |-> <<>>]]

\* os.path.exists / os.chdir follow symbolic links.
Resolve(dk, p) == IF p \in DOMAIN dk /\ dk[p].kind = "link" THEN dk[p].to ELSE p
exists(dk, at, name) == Resolve(dk, at \o <<name>>) \in DOMAIN dk
IsDir(dk, at, name) == exists(dk, at, name) /\ dk[Resolve(dk, at \o <<name>>)].kind = "dir"
\* os.chdir(name): the working directory becomes the directory the name
\* resolves to; os.chdir(".."): its parent on disk.
chdir(dk, at, name) ==
    IF name = ".."
    THEN IF Len(at) <= 1 THEN at ELSE SubSeq(at, 1, Len(at) - 1)
    ELSE Resolve(dk, at \o <<name>>)
makedirs(dk, p) == IF p \in DOMAIN dk THEN dk ELSE dk @@ (p :> [kind |-> "dir", to |-> <<>>])

\* ------------------------------------------------------------------- state
VARIABLES
    path_data,          \* args.path_data
    seed,               \* args.seed
    split,              \* args.split
    src,                \* files of the source trees: path -> content
    dirs,               \* output directories that exist
    logAdded,           \* logs.txt has been opened
    idx,                \* position of the dataset loop in path_data
    all_lesion_files, train_images, test_images,
    tr_subs, tr_bound,  \* tr_subs and whether the name is bound yet
    te_subs,
    k,                  \* position of the subject loop in all_lesion_files
    train_ctr, test_ctr, train_niftis, test_nifitis,
    out,                \* files under path_out: destination -> content
    yaml_file, json_file, \* the two manifest files, <<>> while absent
    pc, err,            \* stage of main() and the exception that ended it
    run, prev,          \* execution number and the outcome of the previous one
    cwd,                \* download_data.py: the process's working directory
    disk,               \* download_data.py: path -> directory, link or file
    ds,                 \* position of the dataset loop in SITES_CONFIG
    skip_download,      \* args.no_download
    log_file,           \* lines appended to LOG_FILENAME
    annexed,            \* directories in which 'git annex get' was run
    dpc, dl_err         \* stage of download_data.py and the exception that ended it

inputs == <<path_data, seed, split>>
splitVars == <<idx, all_lesion_files, train_images, test_images, tr_subs, tr_bound, te_subs>>
loopVars == <<k, train_ctr, test_ctr, train_niftis, test_nifitis>>
manifestVars == <<yaml_file, json_file>>
dlVars == <<cwd, disk, ds, skip_download, log_file, annexed, dpc, dl_err>>
vars == <<inputs, src, dirs, logAdded, splitVars, loopVars, out, manifestVars, pc, err, run, prev, dlVars>>

\* The downloader at rest while the converter runs.
DownloadIdle ==
    /\ cwd = Home
    /\ disk = InitialDisk(<<>>)
    /\ ds = 1
    /\ skip_download = FALSE
    /\ log_file = <<>>
    /\ annexed = {}
    /\ dpc = "finished"
    /\ dl_err = "None"

SourceLists == UNION {[1..n -> Roots] : n \in 1..MaxSources}

\* Lesion files whose companion may be absent: those of the listed sources.
Missable(pd) == UNION {{LesionPath(r, s) : s \in StemsOf(r)} : r \in Range(pd) \cap {RootA, RootB}}

Init ==
    /\ path_data \in SourceLists
    /\ seed \in Seeds
    /\ split \in Splits
    /\ \E missing \in SUBSET Missable(path_data) :
          /\ Cardinality(missing) <= MaxMissing
          /\ src = InitialTree(missing)
    /\ dirs = {}
    /\ logAdded = FALSE
    /\ idx = 1
    /\ all_lesion_files = <<>>
    /\ train_images = <<>>
    /\ test_images = <<>>
    /\ tr_subs = <<>>
    /\ tr_bound = FALSE
    /\ te_subs = <<>>
    /\ k = 1
    /\ train_ctr = 0
    /\ test_ctr = 0
    /\ train_niftis = <<>>
    /\ test_nifitis = <<>>
    /\ out = <<>>
    /\ yaml_file = <<>>
    /\ json_file = <<>>
    /\ pc = "setup"
    /\ err = "None"
    /\ run = 1
    /\ prev = <<>>
    /\ DownloadIdle

\* ------------------------------------------------------------------- Setup
TrainDirs == {<<"path_out">>, <<"imagesTr">>, <<"labelsTr">>}
\* create_directories(path_out, site)
create_directories(site) == {<<"imagesTs", site>>, <<"labelsTs", site>>}
\* sites = set(find_site_in_path(path) for path in args.path_data if ...)
sites == {find_site_in_path(path_data[i]) : i \in 1..Len(path_data)} \ {"None"}
PathExists(root) == root \in ExistingRoots

\* main(), lines 216-248: output directories and log first, then the path check.
Setup ==
    /\ pc = "setup"
    /\ logAdded' = TRUE
    /\ IF \E i \in 1..Len(path_data) : ~PathExists(path_data[i])
       THEN /\ dirs' = TrainDirs
            /\ pc' = "crashed"
            /\ err' = "InvalidSourcePath"
       ELSE /\ dirs' = TrainDirs \cup UNION {create_directories(s) : s \in sites}
            /\ pc' = "split"
            /\ err' = err
    /\ UNCHANGED <<inputs, src, splitVars, loopVars, out, manifestVars, run, prev, dlVars>>

\* ------------------------------------------------------------- SplitSource
LesionFiles(root) == {p \in DOMAIN src : p.root = root /\ p.suffix = "_lesion"}
\* root.rglob('<allow-listed image name>') for each name, in list order
RECURSIVE AllowListed(_, _)
AllowListed(root, i) ==
    IF i > Len(AllowList) THEN <<>>
    ELSE (IF ImagePath(root, AllowList[i]) \in DOMAIN src
          THEN <<ImagePath(root, AllowList[i])>> ELSE <<>>) \o AllowListed(root, i + 1)

random_state_unseeded == seed + run - 1
\* random_state=args.seed (line 267)
random_state == seed

\* dict.update({sub: os.path.join(root, sub) for sub in subs})
DictUpdate(d, root, subs) ==
    [sub \in Range(subs) |-> PathJoin(root, Components(sub))] @@ d

\* One iteration of the dataset loop, lines 251-287.
SplitSource ==
    /\ pc = "split"
    /\ LET root == path_data[idx]
           dataset_name == Basename(root)
           last == idx = Len(path_data)
       IN IF dataset_name # "site_014"
          THEN \E lesion_files \in EnumerationOrders(LesionFiles(root)) :
                 LET n == Len(lesion_files)
                     test_ratio == split[2]
                     n_test == NTest(n, test_ratio)
                     n_train == n - n_test
                     perm == Permutation(random_state, n)
                     tr == SafeIndexing(lesion_files, ind_train(perm, n_test, n_train))
                     te == SafeIndexing(lesion_files, ind_test(perm, n_test))
                 IN /\ all_lesion_files' = all_lesion_files \o lesion_files
                    /\ IF SplitRaises(n, test_ratio)
                       THEN /\ pc' = "crashed"
                            /\ err' = "SplitValueError"
                            /\ UNCHANGED <<idx, train_images, test_images, tr_subs, tr_bound, te_subs>>
                       ELSE /\ tr_subs' = tr
                            /\ tr_bound' = TRUE
                            /\ te_subs' = te
                            /\ train_images' = DictUpdate(train_images, root, tr)
                            /\ test_images' = DictUpdate(test_images, root, te)
                            /\ idx' = idx + 1
                            /\ pc' = IF last THEN "convert" ELSE "split"
                            /\ err' = err
          ELSE LET te == AllowListed(root, 1)
               IN /\ te_subs' = te
                  /\ all_lesion_files' = all_lesion_files \o te
                  /\ UNCHANGED <<tr_subs, tr_bound>>
                  /\ IF ~tr_bound
                     THEN /\ pc' = "crashed"
                          /\ err' = "UnboundLocalError"
                          /\ UNCHANGED <<idx, train_images, test_images>>
                     ELSE /\ train_images' = DictUpdate(train_images, root, tr_subs)
                          /\ test_images' = DictUpdate(test_images, root, te)
                          /\ idx' = idx + 1
                          /\ pc' = IF last THEN "convert" ELSE "split"
                          /\ err' = err
    /\ UNCHANGED <<inputs, src, dirs, logAdded, loopVars, out, manifestVars, run, prev, dlVars>>

\* ---------------------------------------------------------- ConvertSubject
Dest(dir, stem, ctr, chan) == [dir |-> dir, stem |-> stem, ctr |-> ctr, chan |-> chan]
Channels == <<"0000", "0001", "label">>

\* thr=0.5 (lines 84, 329, 376)
thr == 50
\* Label fusion: a voxel of the thresholded lesion mask gets 2 (inside the
\* cord or folded into it), another voxel of the thresholded cord mask 1.
fuse(lesion, cord, t) ==
    [v \in DOMAIN lesion |-> IF lesion[v] >= t THEN 200 ELSE IF cord[v] >= t THEN 100 ELSE 0]
\* create_multi_channel_label (utils): the fused volume saved next to the masks
create_multi_channel_label(label, seg, image) ==
    Content("fused", src[label].orient, fuse(src[label].vox, src[seg].vox, thr))
\* Image.change_orientation (utils)
change_orientation(c, code) == [c EXCEPT !.orient = code]

\* the files main() reloads, reorients to RPI and saves (lines 339-350, 389-400)
ReorientedChannelsNoLabel == {"0000", "0001"}
ReorientedChannels == {"0000", "0001", "label"}

\* the source file copied to each destination (lines 333-337, 380-386)
ChannelSourceRawSeg(c, image, combined, label, seg) ==
    CASE c = "0000" -> image [] c = "0001" -> seg [] OTHER -> label
ChannelSource(c, image, combined, label, seg) ==
    CASE c = "0000" -> image [] c = "0001" -> combined [] OTHER -> label

\* the path whose site names the test directories (lines 363-373)
TestSitePathStaleRoot(label) == path_data[Len(path_data)]
TestSitePath(label) == test_images[label]

ImagesDir(isTrain, label) ==
    IF isTrain THEN <<"imagesTr">> ELSE <<"imagesTs", find_site_in_path(TestSitePath(label))>>
LabelsDir(isTrain, label) ==
    IF isTrain THEN <<"labelsTr">> ELSE <<"labelsTs", find_site_in_path(TestSitePath(label))>>

Min(a, b) == IF a < b THEN a ELSE b
NoFailure == 8

\* The body of the subject loop for a train or test subject.  Steps: 1
\* get_multi_channel_label, 2-4 the three shutil.copyfile calls, 5-7 load,
\* reorient and save of the three destinations.  env is the step at which the
\* file system or the volume library raises (NoFailure: none); the first
\* step that raises ends the run, nothing catches the exception.
Emit(isTrain, label, env) ==
    LET image == ImageFileOf(label)
        seg == ReplaceLesion(label, "_seg")
        combined == ReplaceLesion(label, "_seg-lesion")
        hasSeg == seg \in DOMAIN src
        ctr == (IF isTrain THEN train_ctr ELSE test_ctr) + 1
        sub_name == image.stem
        imgDir == ImagesDir(isTrain, label)
        lblDir == LabelsDir(isTrain, label)
        dirOf == [c \in Range(Channels) |-> IF c = "label" THEN lblDir ELSE imgDir]
        srcOf == [c \in Range(Channels) |-> ChannelSource(c, image, combined, label, seg)]
        \* first step that raises whatever the environment does
        intrinsic ==
            IF image \notin DOMAIN src \/ imgDir \notin dirs THEN 2
            ELSE IF ~hasSeg THEN 3
            ELSE IF lblDir \notin dirs THEN 4
            ELSE NoFailure
        stop == Min(env, intrinsic)
        src1 == IF stop > 1 /\ hasSeg
                THEN (combined :> create_multi_channel_label(label, seg, image)) @@ src
                ELSE src
        copied == {Channels[i] : i \in {j \in 1..3 : j + 1 < stop}}
        reoriented == {Channels[i] : i \in {j \in 1..3 : j + 4 < stop}} \cap ReorientedChannels
        file(c) == LET raw == [kind |-> src1[srcOf[c]].kind, orient |-> src1[srcOf[c]].orient,
                               vox |-> src1[srcOf[c]].vox, from |-> srcOf[c], subj |-> label]
                   IN IF c \in reoriented THEN change_orientation(raw, "RPI") ELSE raw
        written == [d \in {Dest(dirOf[c], sub_name, ctr, c) : c \in copied} |-> file(d.chan)]
    IN /\ env < intrinsic \/ env = NoFailure
       /\ env = 1 => hasSeg
       /\ IF isTrain
          THEN /\ train_ctr' = ctr
               /\ train_niftis' = Append(train_niftis, sub_name)
               /\ UNCHANGED <<test_ctr, test_nifitis>>
          ELSE /\ test_ctr' = ctr
               /\ test_nifitis' = Append(test_nifitis, sub_name)
               /\ UNCHANGED <<train_ctr, train_niftis>>
       /\ src' = src1
       /\ out' = written @@ out
       /\ IF stop = NoFailure
          THEN /\ k' = k + 1
               /\ UNCHANGED <<pc, err>>
          ELSE /\ k' = k
               /\ pc' = "crashed"
               /\ err' = IF stop = env THEN "IOError"
                         ELSE IF stop = 3 THEN "TypeError" ELSE "FileNotFoundError"

\* One iteration of the subject loop, lines 303-402.
ConvertSubject ==
    /\ pc = "convert"
    /\ k <= Len(all_lesion_files)
    /\ LET subject_label_file == all_lesion_files[k]
       IN IF subject_label_file \in DOMAIN train_images
          THEN \E env \in 1..NoFailure : Emit(TRUE, subject_label_file, env)
          ELSE IF subject_label_file \in DOMAIN test_images
          THEN \E env \in 1..NoFailure : Emit(FALSE, subject_label_file, env)
          ELSE /\ k' = k + 1
               /\ UNCHANGED <<train_ctr, test_ctr, train_niftis, test_nifitis, src, out, pc, err>>
    /\ UNCHANGED <<inputs, dirs, logAdded, splitVars, manifestVars, run, prev, dlVars>>

\* -------------------------------------------------------------- CreateYaml
RECURSIVE Insert(_, _)
Insert(x, s) ==
    IF s = <<>> THEN <<x>>
    ELSE IF x <= Head(s) THEN <<x>> \o s
    ELSE <<Head(s)>> \o Insert(x, Tail(s))
unsorted(s) == s
RECURSIVE sorted(_)
sorted(s) == IF s = <<>> THEN <<>> ELSE Insert(Head(s), sorted(Tail(s)))

niftis_dict == [complete |-> TRUE, train |-> sorted(train_niftis), test |-> sorted(test_nifitis)]
json_dict == [complete |-> TRUE, numTraining |-> train_ctr, numTest |-> test_ctr,
              seed_used |-> seed, image_orientation |-> "RPI"]
Truncated(d) == [d EXCEPT !.complete = FALSE]

\* create_yaml, lines 132-209, called at line 432 when the subject loop ends:
\* open and dump the split record, then open and write dataset.json.
CreateYaml ==
    /\ pc = "convert"
    /\ k > Len(all_lesion_files)
    /\ \E fail \in {"none", "yaml", "json"} :
          /\ yaml_file' = IF fail = "yaml" THEN <<Truncated(niftis_dict)>> ELSE <<niftis_dict>>
          /\ json_file' = CASE fail = "yaml" -> json_file
                            [] fail = "json" -> <<Truncated(json_dict)>>
                            [] OTHER -> <<json_dict>>
          /\ pc' = IF fail = "none" THEN "done" ELSE "crashed"
          /\ err' = IF fail = "none" THEN err ELSE "ManifestIOError"
    /\ UNCHANGED <<inputs, src, dirs, logAdded, splitVars, loopVars, out, run, prev, dlVars>>

\* ----------------------------------------------------------- specification
Next == Setup \/ SplitSource \/ ConvertSubject \/ CreateYaml

Spec == Init /\ [][Next]_vars

\* A second execution with the same arguments over the same source trees,
\* writing below a fresh --path-out.
Outcome ==
    [all |-> all_lesion_files, train |-> DOMAIN train_images, test |-> DOMAIN test_images,
     train_ctr |-> train_ctr, test_ctr |-> test_ctr, names |-> DOMAIN out,
     train_niftis |-> train_niftis, test_nifitis |-> test_nifitis, yaml |-> yaml_file]

Rerun ==
    /\ pc = "done"
    /\ run < MaxRuns
    /\ prev' = <<Outcome>>
    /\ run' = run + 1
    /\ dirs' = {}
    /\ logAdded' = FALSE
    /\ idx' = 1
    /\ all_lesion_files' = <<>>
    /\ train_images' = <<>>
    /\ test_images' = <<>>
    /\ tr_subs' = <<>>
    /\ tr_bound' = FALSE
    /\ te_subs' = <<>>
    /\ k' = 1
    /\ train_ctr' = 0
    /\ test_ctr' = 0
    /\ train_niftis' = <<>>
    /\ test_nifitis' = <<>>
    /\ out' = <<>>
    /\ yaml_file' = <<>>
    /\ json_file' = <<>>
    /\ pc' = "setup"
    /\ UNCHANGED <<inputs, src, err, dlVars>>

NextTwoRuns == Next \/ Rerun

\* Both executions find every companion file.
InitTwoRuns == Init /\ \A p \in DOMAIN src : p.suffix = "_lesion" => ReplaceLesion(p, "_seg") \in DOMAIN src

SpecTwoRuns == InitTwoRuns /\ [][NextTwoRuns]_vars

\* ------------------------------------------------------- download_data.py
\* The converter at rest while the downloader runs.
ConverterIdle ==
    /\ path_data = <<RootA>>
    /\ seed = 42
    /\ split = <<80, 20>>
    /\ src = InitialTree({})
    /\ dirs = {}
    /\ logAdded = FALSE
    /\ idx = 1
    /\ all_lesion_files = <<>>
    /\ train_images = <<>>
    /\ test_images = <<>>
    /\ tr_subs = <<>>
    /\ tr_bound = FALSE
    /\ te_subs = <<>>
    /\ k = 1
    /\ train_ctr = 0
    /\ test_ctr = 0
    /\ train_niftis = <<>>
    /\ test_nifitis = <<>>
    /\ out = <<>>
    /\ yaml_file = <<>>
    /\ json_file = <<>>
    /\ pc = "done"
    /\ err = "None"
    /\ run = 1
    /\ prev = <<>>

converterVars == <<inputs, src, dirs, logAdded, splitVars, loopVars, out, manifestVars, pc, err, run, prev>>

DatasetNames == Range(Datasets)

Existing == UNION {[names -> EntryKinds] : names \in {ns \in SUBSET DatasetNames : Cardinality(ns) <= MaxExisting}}

InitDownload ==
    /\ ConverterIdle
    /\ cwd = Home
    /\ \E existing \in Existing : disk = InitialDisk(existing)
    /\ ds = 1
    /\ skip_download \in BOOLEAN
    /\ log_file = <<>>
    /\ annexed = {}
    /\ dpc = "start"
    /\ dl_err = "None"

\* __main__ up to the loops: the download folder is made and entered.
EnterFolder ==
    /\ dpc = "start"
    /\ disk' = makedirs(disk, Folder)
    /\ cwd' = Folder
    /\ dpc' = "loop"
    /\ UNCHANGED <<ds, skip_download, log_file, annexed, dl_err, converterVars>>

\* One call of download_dataset for the next dataset of SITES_CONFIG.
\* cloneOK: 'git clone' exits with status 0; found: 'find' lists a T2w file.
download_dataset ==
    /\ dpc = "loop"
    /\ ds <= Len(Datasets)
    /\ \E cloneOK \in BOOLEAN, found \in BOOLEAN :
          LET dataset_name == Datasets[ds]
              fresh == ~exists(disk, cwd, dataset_name)
              disk1 == IF fresh /\ cloneOK THEN makedirs(disk, cwd \o <<dataset_name>>) ELSE disk
              dataset_path == chdir(disk1, cwd, dataset_name)
          IN IF fresh /\ ~cloneOK
             THEN /\ dpc' = "raised"
                  /\ dl_err' = "CalledProcessError"
                  /\ UNCHANGED <<cwd, disk, ds, log_file, annexed>>
             ELSE IF ~IsDir(disk1, cwd, dataset_name)
             THEN /\ dpc' = "raised"
                  /\ dl_err' = "NotADirectoryError"
                  /\ UNCHANGED <<cwd, disk, ds, log_file, annexed>>
             ELSE /\ disk' = disk1
                  /\ log_file' = Append(log_file, dataset_name)
                  /\ annexed' = IF ~skip_download /\ found
                                 THEN annexed \cup {dataset_path} ELSE annexed
                  /\ cwd' = chdir(disk1, dataset_path, "..")
                  /\ ds' = ds + 1
                  /\ dpc' = IF ds = Len(Datasets) THEN "finished" ELSE "loop"
                  /\ dl_err' = dl_err
    /\ UNCHANGED <<skip_download, converterVars>>

NextDownload == EnterFolder \/ download_dataset

SpecDownload == InitDownload /\ [][NextDownload]_vars

\* ------------------------------------------------------------- vocabulary
SplitDone == idx > Len(path_data)
TrainFiles == {d \in DOMAIN out : d.dir[1] \in {"imagesTr", "labelsTr"}}
TestFiles == {d \in DOMAIN out : d.dir[1] \in {"imagesTs", "labelsTs"}}
\* counters of the subjects that have all three files below the given files
Complete(files) ==
    {c \in {d.ctr : d \in files} :
        \A ch \in Range(Channels) : \E d \in files : d.ctr = c /\ d.chan = ch}
HasSeg(p) == ReplaceLesion(p, "_seg") \in DOMAIN src
NoDuplicates(s) == \A i, j \in 1..Len(s) : s[i] = s[j] => i = j
PerSubjectErrors == {"TypeError", "FileNotFoundError", "IOError"}

\* C1: the counters in emitted file names are 1..k per split, and a counter
\* value is consumed only by a subject that is emitted: short of an I/O
\* failure, train_ctr and test_ctr count the subjects with all three files.
C1_CountersOnlyForEmitted ==
    /\ {d.ctr : d \in TrainFiles} = 1..Cardinality({d.ctr : d \in TrainFiles})
    /\ {d.ctr : d \in TestFiles} = 1..Cardinality({d.ctr : d \in TestFiles})
    /\ err # "IOError" =>
          /\ train_ctr = Cardinality(Complete(TrainFiles))
          /\ test_ctr = Cardinality(Complete(TestFiles))

\* C2: a subject whose '_seg' companion is absent is skipped entirely: no
\* output file comes from it and its basename is in neither manifest list
\* (stated for the runs in which no I/O operation fails).
C2_MissingCompanionSkipped ==
    \A i \in 1..Len(all_lesion_files) :
        LET p == all_lesion_files[i]
        IN (~HasSeg(p) /\ err # "IOError") =>
              /\ \A d \in DOMAIN out : out[d].subj # p
              /\ ImageFileOf(p).stem \notin Range(train_niftis) \cup Range(test_nifitis)

\* C3: wherever the run stops, every subject with a file in the output
\* directories has all three of its files there.
C3_NoPartialSubject ==
    pc \in {"done", "crashed"} =>
        \A d \in DOMAIN out : \A ch \in Range(Channels) :
            \E e \in DOMAIN out : e.ctr = d.ctr /\ e.chan = ch /\ out[e].subj = out[d].subj

\* C4: a per-subject failure never ends the run: the run stops only at the
\* end, after create_yaml, or on a configuration or manifest error.
C4_SubjectFailureDoesNotHaltRun ==
    pc = "crashed" => err \notin PerSubjectErrors

\* C5: after the dataset loop the train and test sets are disjoint, cover
\* exactly the discovered subjects, each discovered once, and the manifest
\* lists are disjoint.
C5_SplitPartitionsDiscovered ==
    SplitDone =>
        /\ DOMAIN train_images \cap DOMAIN test_images = {}
        /\ DOMAIN train_images \cup DOMAIN test_images = Range(all_lesion_files)
        /\ NoDuplicates(all_lesion_files)
        /\ Range(train_niftis) \cap Range(test_nifitis) = {}

DistinctSources == NoDuplicates(path_data)
DistinctBasenames ==
    \A p, q \in Range(all_lesion_files) : ImageFileOf(p).stem = ImageFileOf(q).stem => p = q

\* C5 (amended): when no source is listed twice, after the dataset loop the
\* train and test sets are disjoint and cover exactly the discovered
\* subjects, each discovered once; when moreover no two discovered subjects
\* share a basename, the manifest lists are disjoint.
C5_SplitPartitionsDistinctSources ==
    (SplitDone /\ DistinctSources) =>
        /\ DOMAIN train_images \cap DOMAIN test_images = {}
        /\ DOMAIN train_images \cup DOMAIN test_images = Range(all_lesion_files)
        /\ NoDuplicates(all_lesion_files)
        /\ DistinctBasenames => Range(train_niftis) \cap Range(test_nifitis) = {}

C5_Witness ==
    /\ pc = "done" /\ Len(path_data) = 2 /\ DistinctSources /\ DistinctBasenames
    /\ train_ctr > 1 /\ test_ctr > 1

SameAsPrevious ==
    /\ DOMAIN train_images = prev[1].train
    /\ DOMAIN test_images = prev[1].test
    /\ pc = "done" => Outcome = prev[1]

\* C6: a second run with the same seed, source list, ratios and source trees
\* reproduces the assignment, counters, file names and manifest lists,
\* whatever the order in which the file system enumerates the files.
C6_RerunIdentical ==
    (run > 1 /\ SplitDone) => SameAsPrevious

\* C6 (amended): a second run with the same seed, source list, ratios and
\* source trees whose enumeration yields the subjects in the same order
\* reproduces the assignment, counters, file names and manifest lists.
C6_RerunIdenticalSameEnumeration ==
    (run > 1 /\ SplitDone /\ all_lesion_files = prev[1].all) => SameAsPrevious

C6_Witness ==
    /\ run = 2 /\ pc = "done" /\ all_lesion_files = prev[1].all
    /\ Len(path_data) = 2 /\ train_ctr > 1 /\ test_ctr > 1

\* C7: when a --path-data entry does not exist the run fails before any
\* output directory or the log file has been created.
C7_InvalidPathBeforeOutput ==
    err = "InvalidSourcePath" => dirs = {} /\ ~logAdded

OverridePositions == {i \in 1..Len(path_data) : Basename(path_data[i]) = "site_014"}

\* C8: a 'site_014' source at any position is processed without failure;
\* its allow-listed images land in the test set and not in the train set,
\* and its remaining subjects are split like those of any other source.
C8_OverrideAnyPosition ==
    /\ err # "UnboundLocalError"
    /\ \A i \in OverridePositions : idx > i =>
          /\ Range(AllowListed(path_data[i], 1)) \subseteq DOMAIN test_images
          /\ Range(AllowListed(path_data[i], 1)) \cap DOMAIN train_images = {}
          /\ LesionFiles(path_data[i]) \subseteq DOMAIN train_images \cup DOMAIN test_images

\* C9: every file of every emitted subject has been reoriented to RPI after
\* its copy, so outside a failed subject every output file is in RPI, the
\* orientation dataset.json records.
C9_EmittedFilesReorientedRPI ==
    /\ pc # "crashed" => \A d \in DOMAIN out : out[d].orient = "RPI"
    /\ pc = "done" => json_file[1].image_orientation = "RPI"

C9_Witness ==
    /\ pc = "done"
    /\ \E d \in TrainFiles : src[out[d].from].orient # "RPI"
    /\ \E d \in TestFiles : d.chan = "label" /\ src[out[d].from].orient # "RPI"

\* C10: every test file lies in imagesTs_<site> or labelsTs_<site> (labels
\* only in the latter) for the site find_site_in_path extracts from its
\* subject's source path; test subjects of different sites share no directory.
C10_TestDirFromSourceSite ==
    /\ \A d \in TestFiles :
          /\ d.dir[2] = find_site_in_path(Components(out[d].subj))
          /\ d.dir[1] = "labelsTs" <=> d.chan = "label"
    /\ \A d, e \in TestFiles :
          find_site_in_path(Components(out[d].subj)) # find_site_in_path(Components(out[e].subj))
              => d.dir # e.dir

C10_Witness ==
    /\ pc = "done"
    /\ \E d, e \in TestFiles : d.dir[2] # e.dir[2] /\ ~IsAbs(out[d].subj.root)

\* C11: create_yaml writes both manifest files or neither: the split record
\* and dataset.json are never visible one without the other or half-written.
C11_ManifestAllOrNothing ==
    /\ (yaml_file = <<>>) <=> (json_file = <<>>)
    /\ yaml_file # <<>> => yaml_file[1].complete
    /\ json_file # <<>> => json_file[1].complete

\* --split ratios that are positive and sum to 1
ValidRatios == split[1] > 0 /\ split[2] > 0 /\ split[1] + split[2] = 100

\* C12: no train/test split is ever computed from ratios that are not
\* positive or do not sum to 1.
C12_InvalidRatiosRejected ==
    ~ValidRatios => ~tr_bound

\* the volume a source path held when the run started
\* The source trees with every companion file, before any run.
PristineTree == InitialTree({})

Original(p) == PristineTree[p]

\* C13: in every emitted channel-1 volume a voxel has the lesion value 2
\* exactly when the subject's lesion mask reaches the threshold there, in or
\* out of the cord mask, and is part of the cord (1 or 2) exactly when one of
\* the two masks reaches it: no lesion voxel is dropped or left outside.
C13_FusedContainment ==
    \A d \in DOMAIN out : d.chan = "0001" =>
        LET f == out[d].vox
            lesion == Original(out[d].subj).vox
            cord == Original(ReplaceLesion(out[d].subj, "_seg")).vox
        IN \A v \in 1..NumVoxels :
              /\ f[v] \in {0, 100, 200}
              /\ f[v] = 200 <=> lesion[v] >= thr
              /\ f[v] >= 100 <=> (lesion[v] >= thr \/ cord[v] >= thr)

C13_Witness ==
    /\ pc = "done"
    /\ \E d \in DOMAIN out :
          /\ d.chan = "0001"
          /\ \E v \in 1..NumVoxels :
                /\ Original(out[d].subj).vox[v] >= thr
                /\ Original(ReplaceLesion(out[d].subj, "_seg")).vox[v] < thr
                /\ out[d].vox[v] = 200

IsSorted(s) == \A i, j \in 1..Len(s) : i < j => s[i] <= s[j]

\* C14: once dataset.json is written, numTraining and numTest equal the
\* lengths of the train and test lists of the split record and the numbers of
\* subjects emitted into the train and test directories; both lists are
\* sorted and hold the basenames collected by the subject loop.
C14_ManifestMatchesEmitted ==
    (json_file # <<>> /\ json_file[1].complete) =>
        /\ yaml_file # <<>> /\ yaml_file[1].complete
        /\ json_file[1].numTraining = Len(yaml_file[1].train)
        /\ json_file[1].numTraining = Cardinality(Complete(TrainFiles))
        /\ json_file[1].numTest = Len(yaml_file[1].test)
        /\ json_file[1].numTest = Cardinality(Complete(TestFiles))
        /\ Complete(TrainFiles) = {d.ctr : d \in TrainFiles}
        /\ Complete(TestFiles) = {d.ctr : d \in TestFiles}
        /\ IsSorted(yaml_file[1].train) /\ IsSorted(yaml_file[1].test)
        /\ Range(yaml_file[1].train) = Range(train_niftis)
        /\ Range(yaml_file[1].test) = Range(test_nifitis)

C14_Witness ==
    /\ pc = "done"
    /\ ~IsSorted(train_niftis)
    /\ train_ctr >= 2 /\ test_ctr >= 1

\* C15: the imagesTs_<site> and labelsTs_<site> directories of every test
\* subject the loop comes to were created before the loop started.
C15_TestDirsExist ==
    SplitDone =>
        \A i \in 1..Len(all_lesion_files) :
            LET p == all_lesion_files[i]
            IN (p \in DOMAIN test_images /\ p \notin DOMAIN train_images) =>
                  /\ ImagesDir(FALSE, p) \in dirs
                  /\ LabelsDir(FALSE, p) \in dirs

\* C16: the run leaves every file of the source trees as it found it; the
\* only files it adds there are '_seg-lesion' companions (runs without an
\* I/O failure of the environment).
C16_SourceInputsUnchanged ==
    err # "IOError" =>
        \A p \in DOMAIN src :
            IF p \in DOMAIN PristineTree
            THEN src[p] = Original(p)
            ELSE p.suffix = "_seg-lesion"

\* C17: after any sequence of download_dataset calls that each returned
\* normally the working directory is the download folder again, and so it
\* is when a call has failed in 'git clone', which leaves it unchanged.
C17_WorkingDirectoryRestored ==
    /\ dpc \in {"loop", "finished"} => cwd = Folder
    /\ dl_err = "CalledProcessError" => cwd = Folder

====
